---- MODULE Spec2Model ----
(***************************************************************************)
(* Model of the retrieval pipelines of                                     *)
(* "Practice Excercises/08_External_Index_Retrievers":                     *)
(*   exercise2  fact_check_statement                                       *)
(*   exercise3  build_multi_source_news_chain (the chain's invoke)         *)
(*   exercise4  hybrid_retrieve (classify_query, get_retriever_for_type)   *)
(*   exercise5  answer_query_multilingual                                  *)
(* Text is modelled as sequences of one-character strings so that strip,   *)
(* lower, substring search, slicing and concatenation are computed.        *)
(* External collaborators (classifier LLM, answer LLM, retrievers,         *)
(* langdetect) answer nondeterministically: a value or an exception.       *)
(***************************************************************************)
EXTENDS Integers, Sequences, FiniteSets, TLC

\* ---------------------------------------------------------------- bounds
\* Number of vocabulary tokens a raw classifier output is built from.
MaxRawTokens == 3
\* Number of documents a retriever call returns at most in the model.
MaxDocs == 2

\* ------------------------------------------------------------ text helpers
UpperLetters == <<"A","B","C","D","E","F","G","H","I","J","K","L","M",
                  "N","O","P","Q","R","S","T","U","V","W","X","Y","Z">>
LowerLetters == <<"a","b","c","d","e","f","g","h","i","j","k","l","m",
                  "n","o","p","q","r","s","t","u","v","w","x","y","z">>

\* str.lower() on one character.
LowerChar(c) ==
    IF \E i \in 1..Len(UpperLetters) : UpperLetters[i] = c
    THEN LowerLetters[CHOOSE i \in 1..Len(UpperLetters) : UpperLetters[i] = c]
    ELSE c

\* str.lower()
Lower(s) == [i \in 1..Len(s) |-> LowerChar(s[i])]

\* Characters str.strip() removes.
IsSpace(c) == c \in {" ", "\n", "\t"}

\* str.strip(): drop leading and trailing whitespace.
Strip(s) ==
    IF \A i \in 1..Len(s) : IsSpace(s[i])
    THEN << >>
    ELSE LET first == CHOOSE i \in 1..Len(s) :
                          /\ ~IsSpace(s[i])
                          /\ \A j \in 1..(i-1) : IsSpace(s[j])
             last  == CHOOSE i \in 1..Len(s) :
                          /\ ~IsSpace(s[i])
                          /\ \A j \in (i+1)..Len(s) : IsSpace(s[j])
         IN SubSeq(s, first, last)

\* Python's  sub in s  for strings.
StrIn(sub, s) ==
    \E i \in 1..(Len(s) - Len(sub) + 1) : SubSeq(s, i, i + Len(sub) - 1) = sub

\* "sep".join(parts)
RECURSIVE Join(_, _)
Join(sep, parts) ==
    IF parts = << >> THEN << >>
    ELSE IF Len(parts) = 1 THEN parts[1]
    ELSE parts[1] \o sep \o Join(sep, Tail(parts))

\* str(i) for a natural number.
RECURSIVE Dec(_)
Dec(n) ==
    LET d == <<"0","1","2","3","4","5","6","7","8","9">>[(n % 10) + 1]
    IN IF n < 10 THEN <<d>> ELSE Dec(n \div 10) \o <<d>>

\* ------------------------------------------------------------ literals
ACADEMIC       == <<"a","c","a","d","e","m","i","c">>
CURRENT_EVENTS == <<"c","u","r","r","e","n","t","_","e","v","e","n","t","s">>
CURRENT        == <<"c","u","r","r","e","n","t">>
NEWS           == <<"n","e","w","s">>
GENERAL        == <<"g","e","n","e","r","a","l">>

Categories == {ACADEMIC, GENERAL, CURRENT_EVENTS}


\* Literal texts of exercise4_hybrid_retrieval_system.py
QueryTypePrefix   == <<"Q","u","e","r","y"," ","t","y","p","e",":"," ">>
NoResultsLine     == <<"N","o"," ","r","e","s","u","l","t","s"," ","f","o","u","n","d"," ","f","r","o","m"," ","t","h","e"," ","s","e","l","e","c","t","e","d"," ","s","o","u","r","c","e",".">>
SelectedSourceLbl == <<"S","e","l","e","c","t","e","d"," ","s","o","u","r","c","e",":"," ">>
ArxivSourceName   == <<"a","r","X","i","v"," ","(","a","c","a","d","e","m","i","c"," ","p","a","p","e","r","s",")">>
TavilySourceName  == <<"T","a","v","i","l","y"," ","(","c","u","r","r","e","n","t"," ","n","e","w","s","/","w","e","b",")">>
WikiSourceName    == <<"W","i","k","i","p","e","d","i","a"," ","(","g","e","n","e","r","a","l"," ","k","n","o","w","l","e","d","g","e",")">>
ResultPrefix      == <<"R","e","s","u","l","t"," ">>
SourcePrefix      == <<"S","o","u","r","c","e"," ">>
NL                == <<"\n">>
EN                == <<"e","n">>

\* ------------------------------------------------ external collaborators
\* Tokens the classifier LLM's reply is assembled from: the three labels in
\* various spellings, a fragment, an unrelated word and whitespace.
Vocab == { <<"A","c","a","d","e","m","i","c">>, <<"N","E","W","S">>, <<"c","u","r","r","e","n","t">>, <<"_","e","v","e","n","t","s">>, <<"g","e","n","e","r","a","l">>,
           <<"s","p","o","r","t","s">>, <<" ">> }

RECURSIVE Concat(_)
Concat(parts) == IF parts = << >> THEN << >> ELSE parts[1] \o Concat(Tail(parts))

\* Every text the classifier chain can return (within the bound).
RawOutputs == { Concat(ts) : ts \in UNION { [1..n -> Vocab] : n \in 0..MaxRawTokens } }

\* The user's input; never inspected by the pipelines themselves.
Queries == { "Latest developments in AI regulation", "Who is Alan Turing?" }

\* langchain Document: page_content plus the metadata keys the code reads.
\* An absent (or empty) metadata value is the empty text.
Doc(title, source, page, content) ==
    [title |-> title, source |-> source, page |-> page, page_content |-> content]

Docs == { Doc(<<"T","1">>, << >>, << >>, <<" ","a","b","\n">>),
          Doc(<< >>, <<"u","/","w">>, << >>, <<"c","d","e","f","g","h">>),
          Doc(<< >>, << >>, << >>, <<"x","y","z">>) }

\* Every document list a retriever call can return (within the bound).
DocLists == UNION { [1..n -> Docs] : n \in 0..MaxDocs }

\* Replies of the answering LLM.
Answers == { <<"Y","e","s",".">>, <<"I"," ","a","m"," ","n","o","t"," ","s","u","r","e",".">> }

\* ------------------------------------------------------------------ state
VARIABLES
    prog,        \* which entry point is running: "idle", "hybrid", ...
    pc,          \* position inside the entry point
    status,      \* "idle" | "running" | "returned" | "raised"
    query,       \* the argument of the entry point
    reply,       \* classify_query: the text chain.invoke returned
    raw,         \* classify_query: local raw
    query_type,  \* hybrid_retrieve: local query_type
    retriever,   \* the retriever object built by the entry point
    docs,        \* local docs
    context,     \* local context
    result,      \* the returned text
    calls,       \* log of calls to external collaborators, in order
    lang_code,   \* answer_query_multilingual: local lang_code
    lang_name,   \* answer_query_multilingual: local lang_name
    llm_input,   \* the mapping handed to the answering chain's prompt
    tpc,         \* multi-source chain: position of each parallel branch
    tdocs,       \* multi-source chain: documents each branch retrieved
    tctx,        \* multi-source chain: text each branch formatted
    resp,        \* multi-source chain: what each retriever answered
    fmt_pc,      \* direct call of format_docs: "idle" | "ready" | "done"
    fmt_fn,      \* which module's format_docs is called
    fmt_docs,    \* its argument docs
    fmt_max,     \* its argument max_chars
    fmt_out      \* its return value

\* The state of the pipelines.
pipelineVars == <<prog, pc, status, query, reply, raw, query_type, retriever, docs,
                  context, result, calls, lang_code, lang_name, llm_input, tpc, tdocs,
                  tctx, resp>>

\* The state of a direct call of format_docs.
fmtVars == <<fmt_pc, fmt_fn, fmt_docs, fmt_max, fmt_out>>

vars == <<pipelineVars, fmtVars>>

\* The locals of each entry point.
hybridVars == <<reply, raw, query_type>>
langVars   == <<lang_code, lang_name>>
chainVars  == <<tpc, tdocs, tctx>>

\* The two retriever branches of the multi-source chain, in dict order.
Branches == {"news", "wiki"}

NoRetriever == [kind |-> "none", max_results |-> 0, search_type |-> "", lang |-> << >>]

\* No prompt has been built.
NoPrompt == << >>

Call(target, q, ok) == [target |-> target, query |-> q, ok |-> ok]

Init ==
    /\ prog = "idle"
    /\ pc = "idle"
    /\ status = "idle"
    /\ query = ""
    /\ reply = << >>
    /\ raw = << >>
    /\ query_type = << >>
    /\ retriever = NoRetriever
    /\ docs = << >>
    /\ context = << >>
    /\ result = << >>
    /\ calls = << >>
    /\ lang_code = << >>
    /\ lang_name = << >>
    /\ llm_input = NoPrompt
    /\ tpc = [b \in Branches |-> "idle"]
    /\ tdocs = [b \in Branches |-> << >>]
    /\ tctx = [b \in Branches |-> << >>]
    /\ resp = [k \in {"tavily", "wikipedia"} |-> << >>]
    /\ fmt_pc = "idle"
    /\ fmt_fn = ""
    /\ fmt_docs = << >>
    /\ fmt_max = 0
    /\ fmt_out = << >>

\* An uncaught exception leaves the entry point.
Raise ==
    /\ status' = "raised"
    /\ pc' = "done"

\* ------------------------------------------------ exercise 4: formatting
\* title = metadata.get("title") or .get("source") or .get("page") or f"Result {i}"
Title4(doc, i) ==
    IF doc.title # << >> THEN doc.title
    ELSE IF doc.source # << >> THEN doc.source
    ELSE IF doc.page # << >> THEN doc.page
    ELSE ResultPrefix \o Dec(i)

\* content = doc.page_content.strip(); truncated to max_chars - 3 plus "..."
\* when longer than max_chars.  content[: n] with n < 0 drops the last -n
\* characters.
Slice(s, n) ==
    IF n >= 0 THEN SubSeq(s, 1, IF n < Len(s) THEN n ELSE Len(s))
    ELSE SubSeq(s, 1, IF Len(s) + n > 0 THEN Len(s) + n ELSE 0)

\* Variant of Truncate that keeps max_chars characters before the marker.
TruncateKeepBudget(content, max_chars) ==
    IF Len(content) > max_chars
    THEN Slice(content, max_chars) \o <<".", ".", ".">>
    ELSE content

Truncate(content, max_chars) ==
    IF Len(content) > max_chars
    THEN Slice(content, max_chars - 3) \o <<".",".",".">>
    ELSE content

Block(title, content) == <<"[">> \o title \o <<"]","\n">> \o content

\* The records of ds without repetitions of an earlier record.
RECURSIVE Dedup(_)
Dedup(ds) ==
    IF ds = << >> THEN << >>
    ELSE LET rest == Dedup(SubSeq(ds, 1, Len(ds) - 1))
             last == ds[Len(ds)]
         IN IF \E i \in 1..Len(rest) : rest[i] = last THEN rest ELSE Append(rest, last)

\* Variant of format_docs4 that drops repeated records.
format_docs4Dedup(ds, max_chars) ==
    Join(<<"\n", "\n">>, [i \in 1..Len(Dedup(ds)) |->
        Block(Title4(Dedup(ds)[i], i), Truncate(Strip(Dedup(ds)[i].page_content), max_chars))])

format_docs4(ds, max_chars) ==
    Join(<<"\n","\n">>, [i \in 1..Len(ds) |->
        Block(Title4(ds[i], i), Truncate(Strip(ds[i].page_content), max_chars))])

\* ------------------------------------------- exercise 4: classify_query
\* Variant of Classify whose fallback hands back the reply itself.
ClassifyRawFallback(r) ==
    IF StrIn(ACADEMIC, r) THEN ACADEMIC
    ELSE IF StrIn(CURRENT_EVENTS, r) \/ StrIn(CURRENT, r) \/ StrIn(NEWS, r)
         THEN CURRENT_EVENTS
    ELSE IF StrIn(GENERAL, r) THEN GENERAL
    ELSE r

\* Variant of Classify that tests the news keywords before "academic".
ClassifyNewsFirst(r) ==
    IF StrIn(CURRENT_EVENTS, r) \/ StrIn(CURRENT, r) \/ StrIn(NEWS, r)
    THEN CURRENT_EVENTS
    ELSE IF StrIn(ACADEMIC, r) THEN ACADEMIC
    ELSE IF StrIn(GENERAL, r) THEN GENERAL
    ELSE GENERAL

\* The keyword tests of classify_query on raw (already stripped, lowered).
Classify(r) ==
    IF StrIn(ACADEMIC, r) THEN ACADEMIC
    ELSE IF StrIn(CURRENT_EVENTS, r) \/ StrIn(CURRENT, r) \/ StrIn(NEWS, r)
         THEN CURRENT_EVENTS
    ELSE IF StrIn(GENERAL, r) THEN GENERAL
    ELSE GENERAL

\* ----------------------------------- exercise 4: get_retriever_for_type
ArxivRetriever == [kind |-> "arxiv", max_results |-> 3, search_type |-> "", lang |-> << >>]
TavilyNewsRetriever == [kind |-> "tavily", max_results |-> 5, search_type |-> "news", lang |-> << >>]
WikipediaRetriever(lang) == [kind |-> "wikipedia", max_results |-> 3, search_type |-> "", lang |-> lang]

\* Variant of get_retriever_for_type without the current_events branch.
get_retriever_no_news(qt) ==
    IF qt = ACADEMIC THEN ArxivRetriever
    ELSE WikipediaRetriever(EN)

get_retriever_for_type(qt) ==
    IF qt = ACADEMIC THEN ArxivRetriever
    ELSE IF qt = CURRENT_EVENTS THEN TavilyNewsRetriever
    ELSE WikipediaRetriever(EN)

\* --------------------------------------------- exercise 4: hybrid_retrieve
HybridStart ==
    /\ prog = "idle"
    /\ \E q \in Queries : query' = q
    /\ prog' = "hybrid"
    /\ pc' = "classify"
    /\ status' = "running"
    /\ UNCHANGED <<reply, raw, query_type, retriever, docs, context, result, calls, langVars, llm_input, chainVars,
                   fmtVars, resp>>

\* classify_query: chain.invoke({"query": query}) returns a text, which is
\* stripped and lowered into raw.
ClassifierReply ==
    /\ prog = "hybrid" /\ pc = "classify"
    /\ \E r \in RawOutputs :
          /\ reply' = r
          /\ raw' = Lower(Strip(r))
    /\ calls' = Append(calls, Call("classifier_llm", query, TRUE))
    /\ pc' = "normalize"
    /\ UNCHANGED <<prog, status, query, query_type, retriever, docs, context, result, langVars, llm_input, chainVars,
                   fmtVars, resp>>

\* classify_query: chain.invoke raises (backend error, unreachable); there is
\* no handler in classify_query nor in hybrid_retrieve.
ClassifierFail ==
    /\ prog = "hybrid" /\ pc = "classify"
    /\ calls' = Append(calls, Call("classifier_llm", query, FALSE))
    /\ Raise
    /\ UNCHANGED <<prog, query, reply, raw, query_type, retriever, docs, context, result, langVars, llm_input, chainVars,
                   fmtVars, resp>>

\* classify_query returns; hybrid_retrieve binds query_type.
ClassifyReturn ==
    /\ prog = "hybrid" /\ pc = "normalize"
    /\ query_type' = Classify(raw)
    /\ pc' = "select"
    /\ UNCHANGED <<prog, status, query, reply, raw, retriever, docs, context, result, calls, langVars, llm_input, chainVars,
                   fmtVars, resp>>

\* retriever = get_retriever_for_type(query_type); the locals of
\* classify_query are gone by now.
SelectRetriever ==
    /\ prog = "hybrid" /\ pc = "select"
    /\ retriever' = get_retriever_for_type(query_type)
    /\ reply' = << >>
    /\ raw' = << >>
    /\ pc' = "retrieve"
    /\ UNCHANGED <<prog, status, query, query_type, docs, context, result, calls, langVars, llm_input, chainVars,
                   fmtVars, resp>>

\* Variant of NoDocs: the empty-result test never fires.
NoDocsNever(ds) == FALSE

\* if not docs
NoDocs(ds) == ds = << >>

\* Variant of HybridResult whose header names Wikipedia only for "general"
\* and Tavily for everything that is neither academic nor general.
HybridResultGeneralOnly(qt, ds) ==
    IF NoDocs(ds)
    THEN QueryTypePrefix \o qt \o NL \o NoResultsLine
    ELSE QueryTypePrefix \o qt \o NL \o SelectedSourceLbl
         \o (IF qt = ACADEMIC THEN ArxivSourceName \o NL
             ELSE IF qt = GENERAL THEN WikiSourceName \o NL
             ELSE TavilySourceName \o NL)
         \o NL \o format_docs4(ds, 800)

\* The text hybrid_retrieve returns.
HybridResult(qt, ds) ==
    IF NoDocs(ds)
    THEN QueryTypePrefix \o qt \o NL \o NoResultsLine
    ELSE QueryTypePrefix \o qt \o NL \o SelectedSourceLbl
         \o (IF qt = ACADEMIC THEN ArxivSourceName \o NL
             ELSE IF qt = CURRENT_EVENTS THEN TavilySourceName \o NL
             ELSE WikiSourceName \o NL)
         \o NL \o format_docs4(ds, 800)

\* docs = retriever.invoke(query) returns a list; the rest of
\* hybrid_retrieve runs to its return.
HybridRetrieved ==
    /\ prog = "hybrid" /\ pc = "retrieve"
    /\ \E ds \in DocLists :
          /\ docs' = ds
          /\ context' = IF NoDocs(ds) THEN << >> ELSE format_docs4(ds, 800)
          /\ result' = HybridResult(query_type, ds)
    /\ calls' = Append(calls, Call(retriever.kind, query, TRUE))
    /\ status' = "returned"
    /\ pc' = "done"
    /\ UNCHANGED <<prog, query, reply, raw, query_type, retriever, langVars, llm_input, chainVars,
                   fmtVars, resp>>

\* Variant of HybridRetrieverFail: the failed call is made again.
HybridRetrieverRetry ==
    /\ prog = "hybrid" /\ pc = "retrieve"
    /\ calls' = Append(calls, Call(retriever.kind, query, FALSE))
    /\ UNCHANGED <<prog, pc, status, query, reply, raw, query_type, retriever, docs,
                   context, result, langVars, llm_input, chainVars, fmtVars, resp>>

\* docs = retriever.invoke(query) raises; hybrid_retrieve has no handler.
HybridRetrieverFail ==
    /\ prog = "hybrid" /\ pc = "retrieve"
    /\ calls' = Append(calls, Call(retriever.kind, query, FALSE))
    /\ Raise
    /\ UNCHANGED <<prog, query, reply, raw, query_type, retriever, docs, context, result, langVars, llm_input, chainVars,
                   fmtVars, resp>>


\* ============================ exercise 5: multilingual knowledge base
DetectedPrefix  == <<"[","D","e","t","e","c","t","e","d"," ","l","a","n","g","u","a","g","e",":"," ">>
NoArticlesQuery == <<"N","o"," ","r","e","l","e","v","a","n","t"," ","W","i","k","i","p","e","d","i","a"," ","a","r","t","i","c","l","e","s"," ","w","e","r","e"," ","f","o","u","n","d"," ","f","o","r"," ","t","h","i","s"," ","q","u","e","r","y",".">>
SameLanguage    == <<"t","h","e"," ","s","a","m","e"," ","l","a","n","g","u","a","g","e"," ","a","s"," ","t","h","e"," ","q","u","e","s","t","i","o","n">>

\* supported, in get_wikipedia_retriever
Supported == { <<"e","n">>, <<"e","s">>, <<"f","r">>, <<"d","e">>, <<"h","i">>, <<"p","t">>, <<"i","t">>, <<"n","l">>,
               <<"s","v">>, <<"r","u">>, <<"j","a">>, <<"k","o">> }

\* Codes langdetect's detect can answer with: the supported ones, its two
\* Chinese codes, another language it knows, and an unknown code.
DetectCodes == Supported \cup { <<"z","h","-","c","n">>, <<"z","h","-","t","w">>, <<"t","r">>, <<"x","x">> }

\* What the call detect(query) does: returns a code or raises.
DetectOutcomes ==
    { [ok |-> TRUE, code |-> c] : c \in DetectCodes } \cup { [ok |-> FALSE, code |-> << >>] }

\* Variant of detect_query_language whose handler returns no code.
detect_no_fallback(o) == o.code

\* try: return detect(query)  except Exception: return "en"
detect_query_language(o) == IF o.ok THEN o.code ELSE EN

\* mapping, in language_name_from_code
LanguageNames ==
    { <<<<"e","n">>, <<"E","n","g","l","i","s","h">>>>, <<<<"e","s">>, <<"S","p","a","n","i","s","h">>>>, <<<<"f","r">>, <<"F","r","e","n","c","h">>>>,
      <<<<"d","e">>, <<"G","e","r","m","a","n">>>>, <<<<"h","i">>, <<"H","i","n","d","i">>>>, <<<<"p","t">>, <<"P","o","r","t","u","g","u","e","s","e">>>>,
      <<<<"i","t">>, <<"I","t","a","l","i","a","n">>>>, <<<<"n","l">>, <<"D","u","t","c","h">>>>, <<<<"s","v">>, <<"S","w","e","d","i","s","h">>>>,
      <<<<"r","u">>, <<"R","u","s","s","i","a","n">>>>, <<<<"z","h","-","c","n">>, <<"C","h","i","n","e","s","e"," ","(","S","i","m","p","l","i","f","i","e","d",")">>>>,
      <<<<"z","h","-","t","w">>, <<"C","h","i","n","e","s","e"," ","(","T","r","a","d","i","t","i","o","n","a","l",")">>>>, <<<<"j","a">>, <<"J","a","p","a","n","e","s","e">>>>,
      <<<<"k","o">>, <<"K","o","r","e","a","n">>>> }

\* mapping.get(lang_code.lower(), "the same language as the question")
language_name_from_code(code) ==
    IF \E e \in LanguageNames : e[1] = Lower(code)
    THEN (CHOOSE e \in LanguageNames : e[1] = Lower(code))[2]
    ELSE SameLanguage

\* Variant of WikiLang that passes every code through.
WikiLangPassThrough(code) == code

\* wiki_lang = lang_code if lang_code in supported else "en"
WikiLang(code) == IF code \in Supported THEN code ELSE EN

get_wikipedia_retriever(code) == WikipediaRetriever(WikiLang(code))

\* title = doc.metadata.get("title") or f"Source {i}"
Title5(doc, i) == IF doc.title # << >> THEN doc.title ELSE SourcePrefix \o Dec(i)

format_docs5(ds, max_chars) ==
    Join(<<"\n","\n">>, [i \in 1..Len(ds) |->
        Block(Title5(ds[i], i), Truncate(Strip(ds[i].page_content), max_chars))])

\* f"[Detected language: {lang_code} ({lang_name})]\n"
LanguageHeader(code, name) == DetectedPrefix \o code \o <<" ","(">> \o name \o <<")","]","\n">>

MultilingualStart ==
    /\ prog = "idle"
    /\ \E q \in Queries : query' = q
    /\ prog' = "multilingual"
    /\ pc' = "detect"
    /\ status' = "running"
    /\ UNCHANGED <<hybridVars, retriever, docs, context, result, calls, langVars,
                   llm_input, chainVars,
                   fmtVars, resp>>

\* lang_code = detect_query_language(query); lang_name = ...;
\* retriever = get_wikipedia_retriever(lang_code)
MultilingualDetect ==
    /\ prog = "multilingual" /\ pc = "detect"
    /\ \E o \in DetectOutcomes :
          /\ lang_code' = detect_query_language(o)
          /\ lang_name' = language_name_from_code(detect_query_language(o))
          /\ retriever' = get_wikipedia_retriever(detect_query_language(o))
          /\ calls' = Append(calls, Call("langdetect", query, o.ok))
    /\ pc' = "retrieve"
    /\ UNCHANGED <<prog, status, query, hybridVars, docs, context, result,
                   llm_input, chainVars,
                   fmtVars, resp>>

\* docs = retriever.invoke(query) returns; on no docs the function returns,
\* otherwise context = format_docs(docs).
MultilingualRetrieved ==
    /\ prog = "multilingual" /\ pc = "retrieve"
    /\ calls' = Append(calls, Call(retriever.kind, query, TRUE))
    /\ \E ds \in DocLists :
          /\ docs' = ds
          /\ IF NoDocs(ds)
             THEN /\ result' = LanguageHeader(lang_code, lang_name) \o NoArticlesQuery
                  /\ status' = "returned"
                  /\ pc' = "done"
                  /\ UNCHANGED context
             ELSE /\ context' = format_docs5(ds, 1000)
                  /\ pc' = "generate"
                  /\ UNCHANGED <<result, status>>
    /\ UNCHANGED <<prog, query, hybridVars, retriever, langVars, llm_input, chainVars,
                   fmtVars, resp>>

\* retriever.invoke(query) raises; answer_query_multilingual has no handler.
MultilingualRetrieverFail ==
    /\ prog = "multilingual" /\ pc = "retrieve"
    /\ calls' = Append(calls, Call(retriever.kind, query, FALSE))
    /\ Raise
    /\ UNCHANGED <<prog, query, hybridVars, retriever, docs, context, result,
                   langVars, llm_input, chainVars,
                   fmtVars, resp>>

\* The mapping passed to chain.invoke in answer_query_multilingual.
MultilingualPrompt ==
    [context |-> context, question |-> query, target_language |-> lang_name]

\* answer = chain.invoke({...}) returns; return header + "\n" + answer
MultilingualAnswered ==
    /\ prog = "multilingual" /\ pc = "generate"
    /\ llm_input' = MultilingualPrompt
    /\ calls' = Append(calls, Call("answer_llm", query, TRUE))
    /\ \E answer \in Answers :
          result' = LanguageHeader(lang_code, lang_name) \o NL \o answer
    /\ status' = "returned"
    /\ pc' = "done"
    /\ UNCHANGED <<prog, query, hybridVars, retriever, docs, context, langVars, chainVars,
                   fmtVars, resp>>

\* Variant of MultilingualLLMFail: the exception is swallowed and a stock
\* answer is returned.
MultilingualLLMFailSwallowed ==
    /\ prog = "multilingual" /\ pc = "generate"
    /\ llm_input' = MultilingualPrompt
    /\ calls' = Append(calls, Call("answer_llm", query, FALSE))
    /\ result' = LanguageHeader(lang_code, lang_name) \o NL
                 \o <<"I"," ","a","m"," ","n","o","t"," ","s","u","r","e",".">>
    /\ status' = "returned"
    /\ pc' = "done"
    /\ UNCHANGED <<prog, query, hybridVars, retriever, docs, context, langVars,
                   chainVars, fmtVars, resp>>

\* chain.invoke raises; no handler.
MultilingualLLMFail ==
    /\ prog = "multilingual" /\ pc = "generate"
    /\ llm_input' = MultilingualPrompt
    /\ calls' = Append(calls, Call("answer_llm", query, FALSE))
    /\ Raise
    /\ UNCHANGED <<prog, query, hybridVars, retriever, docs, context, result,
                   langVars, chainVars,
                   fmtVars, resp>>

\* ================================ exercise 2: wikipedia fact checker
VerdictUnknown      == <<"V","e","r","d","i","c","t",":"," ","U","n","k","n","o","w","n","\n">>
NoArticlesStatement == <<"E","x","p","l","a","n","a","t","i","o","n",":"," ","N","o"," ","r","e","l","e","v","a","n","t"," ","W","i","k","i","p","e","d","i","a"," ","a","r","t","i","c","l","e","s"," ","w","e","r","e"," ","f","o","u","n","d"," ","f","o","r"," ","t","h","i","s"," ","s","t","a","t","e","m","e","n","t",".">>

format_docs2(ds) ==
    Join(<<"\n","\n">>, [i \in 1..Len(ds) |->
        Block(SourcePrefix \o Dec(i), ds[i].page_content)])

FactCheckStart ==
    /\ prog = "idle"
    /\ \E q \in Queries : query' = q
    /\ prog' = "factcheck"
    /\ retriever' = WikipediaRetriever(EN)
    /\ pc' = "retrieve"
    /\ status' = "running"
    /\ UNCHANGED <<hybridVars, docs, context, result, calls, langVars,
                   llm_input, chainVars,
                   fmtVars, resp>>

\* docs = retriever.invoke(statement) returns; on no docs the function
\* returns, otherwise context = format_docs(docs).
FactCheckRetrieved ==
    /\ prog = "factcheck" /\ pc = "retrieve"
    /\ calls' = Append(calls, Call(retriever.kind, query, TRUE))
    /\ \E ds \in DocLists :
          /\ docs' = ds
          /\ IF NoDocs(ds)
             THEN /\ result' = VerdictUnknown \o NoArticlesStatement
                  /\ status' = "returned"
                  /\ pc' = "done"
                  /\ UNCHANGED context
             ELSE /\ context' = format_docs2(ds)
                  /\ pc' = "generate"
                  /\ UNCHANGED <<result, status>>
    /\ UNCHANGED <<prog, query, hybridVars, retriever, langVars, llm_input, chainVars,
                   fmtVars, resp>>

FactCheckRetrieverFail ==
    /\ prog = "factcheck" /\ pc = "retrieve"
    /\ calls' = Append(calls, Call(retriever.kind, query, FALSE))
    /\ Raise
    /\ UNCHANGED <<prog, query, hybridVars, retriever, docs, context, result,
                   langVars, llm_input, chainVars,
                   fmtVars, resp>>

\* The mapping passed to fact_check_chain.invoke.
FactCheckPrompt == [context |-> context, statement |-> query]

\* result = fact_check_chain.invoke({...}); return result
FactCheckAnswered ==
    /\ prog = "factcheck" /\ pc = "generate"
    /\ llm_input' = FactCheckPrompt
    /\ calls' = Append(calls, Call("answer_llm", query, TRUE))
    /\ \E answer \in Answers : result' = answer
    /\ status' = "returned"
    /\ pc' = "done"
    /\ UNCHANGED <<prog, query, hybridVars, retriever, docs, context, langVars, chainVars,
                   fmtVars, resp>>

FactCheckLLMFail ==
    /\ prog = "factcheck" /\ pc = "generate"
    /\ llm_input' = FactCheckPrompt
    /\ calls' = Append(calls, Call("answer_llm", query, FALSE))
    /\ Raise
    /\ UNCHANGED <<prog, query, hybridVars, retriever, docs, context, result,
                   langVars, chainVars,
                   fmtVars, resp>>

\* ============================ exercise 3: multi-source news aggregator
\* title = metadata.get("title") or metadata.get("source") or f"Source {i}"
Title3(doc, i) ==
    IF doc.title # << >> THEN doc.title
    ELSE IF doc.source # << >> THEN doc.source
    ELSE SourcePrefix \o Dec(i)

format_docs3(ds) ==
    Join(<<"\n","\n">>, [i \in 1..Len(ds) |-> Block(Title3(ds[i], i), ds[i].page_content)])

\* tavily_retriever and wiki_retriever of build_multi_source_news_chain
BranchRetriever(b) == IF b = "news" THEN TavilyNewsRetriever ELSE WikipediaRetriever(EN)

\* chain.invoke(topic): the mapping step starts its branches in parallel.
MultiSourceStart ==
    /\ prog = "idle"
    /\ \E q \in Queries : query' = q
    /\ prog' = "multisource"
    /\ pc' = "parallel"
    /\ status' = "running"
    /\ tpc' = [b \in Branches |-> "retrieve"]
    /\ UNCHANGED <<hybridVars, retriever, docs, context, result, calls, langVars,
                   llm_input, tdocs, tctx,
                   fmtVars, resp>>

\* Branch b: its retriever returns a list.
BranchRetrieved(b) ==
    /\ prog = "multisource" /\ pc = "parallel" /\ tpc[b] = "retrieve"
    /\ \E ds \in DocLists :
          /\ tdocs' = [tdocs EXCEPT ![b] = ds]
          /\ resp' = [resp EXCEPT ![BranchRetriever(b).kind] = ds]
    /\ calls' = Append(calls, Call(BranchRetriever(b).kind, query, TRUE))
    /\ tpc' = [tpc EXCEPT ![b] = "format"]
    /\ UNCHANGED <<prog, pc, status, query, hybridVars, retriever, docs, context,
                   result, langVars, llm_input, tctx, fmtVars>>

\* Branch b: its retriever raises (error, timeout); the branch ends with
\* the exception.
BranchRetrieverFail(b) ==
    /\ prog = "multisource" /\ pc = "parallel" /\ tpc[b] = "retrieve"
    /\ calls' = Append(calls, Call(BranchRetriever(b).kind, query, FALSE))
    /\ tpc' = [tpc EXCEPT ![b] = "failed"]
    /\ UNCHANGED <<prog, pc, status, query, hybridVars, retriever, docs, context,
                   result, langVars, llm_input, tdocs, tctx,
                   fmtVars, resp>>

\* Variant of BranchFormat: the branches write their text into one shared
\* slot, so the last one to finish overwrites the other's.
BranchFormatShared(b) ==
    /\ prog = "multisource" /\ pc = "parallel" /\ tpc[b] = "format"
    /\ tctx' = [x \in Branches |-> format_docs3(tdocs[b])]
    /\ tpc' = [tpc EXCEPT ![b] = "done"]
    /\ UNCHANGED <<prog, pc, status, query, hybridVars, retriever, docs, context,
                   result, calls, langVars, llm_input, tdocs, fmtVars, resp>>

\* Branch b: retriever | format_docs
BranchFormat(b) ==
    /\ prog = "multisource" /\ pc = "parallel" /\ tpc[b] = "format"
    /\ tctx' = [tctx EXCEPT ![b] = format_docs3(tdocs[b])]
    /\ tpc' = [tpc EXCEPT ![b] = "done"]
    /\ UNCHANGED <<prog, pc, status, query, hybridVars, retriever, docs, context,
                   result, calls, langVars, llm_input, tdocs,
                   fmtVars, resp>>

\* The mapping the parallel step hands to the prompt.
MultiSourcePrompt ==
    [topic |-> query, news_context |-> tctx["news"], wiki_context |-> tctx["wiki"]]

\* All branches ended without exception: the mapping goes on to prompt | llm.
ParallelJoin ==
    /\ prog = "multisource" /\ pc = "parallel"
    /\ \A b \in Branches : tpc[b] = "done"
    /\ llm_input' = MultiSourcePrompt
    /\ pc' = "generate"
    /\ UNCHANGED <<prog, status, query, hybridVars, retriever, docs, context,
                   result, calls, langVars, chainVars,
                   fmtVars, resp>>

\* All branches ended and one ended with an exception: it is re-raised out
\* of chain.invoke; nothing in the chain handles it.
ParallelJoinRaise ==
    /\ prog = "multisource" /\ pc = "parallel"
    /\ \A b \in Branches : tpc[b] \in {"done", "failed"}
    /\ \E b \in Branches : tpc[b] = "failed"
    /\ Raise
    /\ UNCHANGED <<prog, query, hybridVars, retriever, docs, context, result,
                   calls, langVars, llm_input, chainVars,
                   fmtVars, resp>>

\* prompt | llm | StrOutputParser() returns the summary.
MultiSourceAnswered ==
    /\ prog = "multisource" /\ pc = "generate"
    /\ calls' = Append(calls, Call("answer_llm", query, TRUE))
    /\ \E answer \in Answers : result' = answer
    /\ status' = "returned"
    /\ pc' = "done"
    /\ UNCHANGED <<prog, query, hybridVars, retriever, docs, context, langVars,
                   llm_input, chainVars,
                   fmtVars, resp>>

MultiSourceLLMFail ==
    /\ prog = "multisource" /\ pc = "generate"
    /\ calls' = Append(calls, Call("answer_llm", query, FALSE))
    /\ Raise
    /\ UNCHANGED <<prog, query, hybridVars, retriever, docs, context, result,
                   langVars, llm_input, chainVars,
                   fmtVars, resp>>

\* ------------------------------------------- a retriever never answers
\* No retriever is built with a timeout and no call is wrapped in one, so a
\* call that gets no answer never returns: the caller stays blocked in it.
HybridRetrieverHangs ==
    /\ prog = "hybrid" /\ pc = "retrieve"
    /\ pc' = "blocked"
    /\ UNCHANGED <<prog, status, query, hybridVars, retriever, docs, context, result,
                   calls, langVars, llm_input, chainVars, fmtVars, resp>>

MultilingualRetrieverHangs ==
    /\ prog = "multilingual" /\ pc = "retrieve"
    /\ pc' = "blocked"
    /\ UNCHANGED <<prog, status, query, hybridVars, retriever, docs, context, result,
                   calls, langVars, llm_input, chainVars, fmtVars, resp>>

FactCheckRetrieverHangs ==
    /\ prog = "factcheck" /\ pc = "retrieve"
    /\ pc' = "blocked"
    /\ UNCHANGED <<prog, status, query, hybridVars, retriever, docs, context, result,
                   calls, langVars, llm_input, chainVars, fmtVars, resp>>

\* Branch b of the multi-source chain stays blocked; the parallel step
\* waits for all its branches, so the chain never gets past it.
BranchRetrieverHangs(b) ==
    /\ prog = "multisource" /\ pc = "parallel" /\ tpc[b] = "retrieve"
    /\ tpc' = [tpc EXCEPT ![b] = "blocked"]
    /\ UNCHANGED <<prog, pc, status, query, hybridVars, retriever, docs, context,
                   result, calls, langVars, llm_input, tdocs, tctx, fmtVars, resp>>

\* ------------------------------------------------------- specification
Next ==
    \/ HybridStart
    \/ ClassifierReply
    \/ ClassifierFail
    \/ ClassifyReturn
    \/ SelectRetriever
    \/ HybridRetrieved
    \/ HybridRetrieverFail
    \/ MultilingualStart
    \/ MultilingualDetect
    \/ MultilingualRetrieved
    \/ MultilingualRetrieverFail
    \/ MultilingualAnswered
    \/ MultilingualLLMFail
    \/ FactCheckStart
    \/ FactCheckRetrieved
    \/ FactCheckRetrieverFail
    \/ FactCheckAnswered
    \/ FactCheckLLMFail
    \/ MultiSourceStart
    \/ \E b \in Branches : BranchRetrieved(b)
    \/ \E b \in Branches : BranchRetrieverFail(b)
    \/ \E b \in Branches : BranchFormat(b)
    \/ ParallelJoin
    \/ ParallelJoinRaise
    \/ MultiSourceAnswered
    \/ MultiSourceLLMFail
    \/ HybridRetrieverHangs
    \/ MultilingualRetrieverHangs
    \/ FactCheckRetrieverHangs
    \/ \E b \in Branches : BranchRetrieverHangs(b)

Spec == Init /\ [][Next]_vars

\* ==================================== format_docs called on its own
\* Largest max_chars a direct call is given.
MaxBudget == 5

\* format_docs of exercise 4 and of exercise 5 take docs and max_chars.
FormatFns == {"exercise4", "exercise5"}

\* A caller is about to call format_docs(docs, max_chars); no pipeline runs.
FormatInit ==
    /\ prog = "idle"
    /\ pc = "idle"
    /\ status = "idle"
    /\ query = ""
    /\ reply = << >>
    /\ raw = << >>
    /\ query_type = << >>
    /\ retriever = NoRetriever
    /\ docs = << >>
    /\ context = << >>
    /\ result = << >>
    /\ calls = << >>
    /\ lang_code = << >>
    /\ lang_name = << >>
    /\ llm_input = NoPrompt
    /\ tpc = [b \in Branches |-> "idle"]
    /\ tdocs = [b \in Branches |-> << >>]
    /\ tctx = [b \in Branches |-> << >>]
    /\ resp = [k \in {"tavily", "wikipedia"} |-> << >>]
    /\ fmt_pc = "ready"
    /\ fmt_fn \in FormatFns
    /\ fmt_docs \in DocLists
    /\ fmt_max \in 0..MaxBudget
    /\ fmt_out = << >>

\* exercise 4: format_docs(docs, max_chars) returns.
FormatCall4 ==
    /\ fmt_pc = "ready" /\ fmt_fn = "exercise4"
    /\ fmt_out' = format_docs4(fmt_docs, fmt_max)
    /\ fmt_pc' = "done"
    /\ UNCHANGED <<pipelineVars, fmt_fn, fmt_docs, fmt_max>>

\* exercise 5: format_docs(docs, max_chars) returns.
FormatCall5 ==
    /\ fmt_pc = "ready" /\ fmt_fn = "exercise5"
    /\ fmt_out' = format_docs5(fmt_docs, fmt_max)
    /\ fmt_pc' = "done"
    /\ UNCHANGED <<pipelineVars, fmt_fn, fmt_docs, fmt_max>>

FormatNext ==
    \/ FormatCall4
    \/ FormatCall5

FormatSpec == FormatInit /\ [][FormatNext]_vars

\* ============== hybrid_retrieve from an arbitrary value of query_type
\* Values query_type is given: the three categories, an undeclared label
\* and the empty text.
QueryTypes == Categories \cup { <<"s","p","o","r","t","s">>, << >> }

\* hybrid_retrieve right after its first statement, with classify_query
\* having answered any of QueryTypes.
RoutingInit ==
    /\ prog = "hybrid"
    /\ pc = "select"
    /\ status = "running"
    /\ query \in Queries
    /\ reply = << >>
    /\ raw = << >>
    /\ query_type \in QueryTypes
    /\ retriever = NoRetriever
    /\ docs = << >>
    /\ context = << >>
    /\ result = << >>
    /\ calls = <<Call("classifier_llm", query, TRUE)>>
    /\ lang_code = << >>
    /\ lang_name = << >>
    /\ llm_input = NoPrompt
    /\ tpc = [b \in Branches |-> "idle"]
    /\ tdocs = [b \in Branches |-> << >>]
    /\ tctx = [b \in Branches |-> << >>]
    /\ resp = [k \in {"tavily", "wikipedia"} |-> << >>]
    /\ fmt_pc = "idle"
    /\ fmt_fn = ""
    /\ fmt_docs = << >>
    /\ fmt_max = 0
    /\ fmt_out = << >>

RoutingNext ==
    \/ SelectRetriever
    \/ HybridRetrieved
    \/ HybridRetrieverFail
    \/ HybridRetrieverHangs

RoutingSpec == RoutingInit /\ [][RoutingNext]_vars

\* =============================================================== claims
\* A call to target was logged, with the given outcome.
Called(target, ok) == \E i \in 1..Len(calls) : calls[i].target = target /\ calls[i].ok = ok

\* classify_query has returned to hybrid_retrieve.
ClassifyReturned ==
    /\ prog = "hybrid"
    /\ pc \in {"select", "retrieve"} \/ (pc = "done" /\ Len(calls) >= 2)

\* C1: whatever text the classifier backend returns, classify_query returns
\* exactly one of academic, general, current_events.
C1_ClassifyClosed == ClassifyReturned => query_type \in Categories

\* C1 witness: the backend returned the empty text and classify_query
\* returned general.
C1_Witness ==
    /\ prog = "hybrid" /\ pc = "select"
    /\ Called("classifier_llm", TRUE)
    /\ reply = << >>
    /\ query_type = GENERAL

\* The backend's reply mentions keyword kw somewhere, in any letter case.
Mentions(kw) ==
    \E i \in 1..Len(reply) :
        /\ i + Len(kw) - 1 <= Len(reply)
        /\ \A k \in 1..Len(kw) : LowerChar(reply[i + k - 1]) = kw[k]

\* C2: the category is decided by one fixed priority over the keywords the
\* reply mentions, wherever they occur: academic, then current_events (on
\* current_events, current or news), then general, else the default general.
C2_FixedPriority ==
    (prog = "hybrid" /\ pc = "select") =>
        query_type =
            IF Mentions(ACADEMIC) THEN ACADEMIC
            ELSE IF Mentions(CURRENT_EVENTS) \/ Mentions(CURRENT) \/ Mentions(NEWS)
                 THEN CURRENT_EVENTS
            ELSE GENERAL

\* C2 witness: a reply with "news" before "academic" was classified academic.
C2_Witness ==
    /\ prog = "hybrid" /\ pc = "select"
    /\ reply = <<"N","E","W","S"," ","A","c","a","d","e","m","i","c">>
    /\ query_type = ACADEMIC

\* C3: when the classifier backend fails, classify_query does not propagate
\* the failure and hybrid_retrieve goes on with the default general.
C3_NeverFailsOutward ==
    (prog = "hybrid" /\ Called("classifier_llm", FALSE)) =>
        /\ status # "raised"
        /\ query_type = GENERAL

\* C4: get_retriever_for_type binds each category classify_query can return
\* to its retriever: academic to arXiv, current_events to Tavily news
\* search, general to the English Wikipedia.
C4_RegistryTotal ==
    (prog = "hybrid" /\ pc = "retrieve") =>
        /\ query_type \in Categories
        /\ query_type = ACADEMIC => retriever.kind = "arxiv"
        /\ query_type = CURRENT_EVENTS =>
              retriever.kind = "tavily" /\ retriever.search_type = "news"
        /\ query_type = GENERAL =>
              retriever.kind = "wikipedia" /\ retriever.lang = EN

\* C4 witness: a query classified current_events got the Tavily retriever.
C4_Witness ==
    /\ prog = "hybrid" /\ pc = "retrieve"
    /\ query_type = CURRENT_EVENTS
    /\ retriever.kind = "tavily"

\* The retriever of answer_query_multilingual has been built.
RetrieverBuilt == prog = "multilingual" /\ pc # "detect"

\* C5: the Wikipedia retriever is configured with the language code when it
\* is supported and with "en" otherwise, so always with a supported code.
C5_AllowList ==
    RetrieverBuilt =>
        /\ retriever.lang \in Supported
        /\ lang_code \in Supported => retriever.lang = lang_code
        /\ lang_code \notin Supported => retriever.lang = EN

\* C5 witness: the unsupported code zh-cn was replaced by en.
C5_Witness ==
    /\ RetrieverBuilt
    /\ lang_code = <<"z","h","-","c","n">>
    /\ retriever.lang = EN

\* The language code written in the header of the returned text.
RecordedLanguage(code) ==
    /\ Len(result) >= Len(DetectedPrefix \o code) + 1
    /\ SubSeq(result, 1, Len(DetectedPrefix \o code) + 1) = DetectedPrefix \o code \o <<" ">>

\* C6: for an unsupported detected code the retriever falls back to "en" and
\* the returned text records the fallback "en", not the detected code.
C6_FallbackRecorded ==
    (prog = "multilingual" /\ status = "returned" /\ lang_code \notin Supported) =>
        /\ retriever.lang = EN
        /\ RecordedLanguage(EN)

\* C7: when detect fails, detect_query_language returns "en", nothing is
\* raised by it, and the pipeline goes on to retrieval (in English).
C7_DetectFailureFallsBack ==
    (prog = "multilingual" /\ Called("langdetect", FALSE)) =>
        /\ lang_code = EN
        /\ retriever.lang = EN
        /\ pc = "retrieve" => status = "running"
        /\ status = "raised" => Len(calls) >= 2

\* C7 witness: after a failed detection the Wikipedia retriever was called.
C7_Witness ==
    /\ prog = "multilingual"
    /\ Called("langdetect", FALSE)
    /\ Called("wikipedia", TRUE)
    /\ lang_code = EN

\* Retrieval returned, with no records.
RetrievedNothing == Called("wikipedia", TRUE) /\ docs = << >>

\* C8: when retrieval yields no records, answer_query_multilingual and
\* fact_check_statement return at once, the answering LLM is never called,
\* and the returned text says that no relevant articles were found.
C8_ShortCircuit ==
    (prog \in {"multilingual", "factcheck"} /\ RetrievedNothing) =>
        /\ ~Called("answer_llm", TRUE) /\ ~Called("answer_llm", FALSE)
        /\ DOMAIN llm_input = {}
        /\ status = "returned"
        /\ StrIn(<<"N","o"," ","r","e","l","e","v","a","n","t"," ","W","i","k","i","p","e","d","i","a"," ","a","r","t","i","c","l","e","s"," ","w","e","r","e"," ","f","o","u","n","d">>, result)

\* C8 witness: answer_query_multilingual returned after an empty retrieval.
C8_Witness ==
    /\ prog = "multilingual"
    /\ RetrievedNothing
    /\ status = "returned"

\* Branch b of the multi-source chain brought nothing: it failed or its
\* retriever returned no records.
BranchEmpty(b) == tpc[b] = "failed" \/ (tpc[b] = "done" /\ tdocs[b] = << >>)

\* C9: when one retriever of the multi-source chain fails and the other
\* returns records, the chain is not aborted: the records are formatted and
\* the answering LLM is called with them.
C9_BestEffortUnion ==
    \A b \in Branches : \A o \in Branches \ {b} :
        (/\ prog = "multisource" /\ pc = "done"
         /\ tpc[b] = "failed"
         /\ tpc[o] = "done" /\ tdocs[o] # << >>) =>
            /\ status = "returned"
            /\ Called("answer_llm", TRUE)

\* C10: when every retriever of the multi-source chain fails or returns
\* nothing, the chain ends with an explicit no-results outcome and the
\* answering LLM is not called.
C10_AllSourcesUnavailable ==
    (/\ prog = "multisource" /\ pc \in {"generate", "done"}
     /\ \A b \in Branches : BranchEmpty(b)) =>
        /\ pc = "done" /\ status = "returned"
        /\ ~Called("answer_llm", TRUE) /\ ~Called("answer_llm", FALSE)

\* A retriever call of the running pipeline ended with an exception.
RetrieverFailed == \E k \in {"arxiv", "tavily", "wikipedia"} : Called(k, FALSE)

\* The text each single-source pipeline returns for zero records.
NoResultsText ==
    IF prog = "hybrid" THEN QueryTypePrefix \o query_type \o NL \o NoResultsLine
    ELSE LanguageHeader(lang_code, lang_name) \o NoArticlesQuery

\* C13: in hybrid_retrieve and answer_query_multilingual a failure of the
\* selected retriever is handled like an empty result: the invocation
\* returns its "no results" text and no exception reaches the caller.
C13_RetrieverFailureIsNoResults ==
    (prog \in {"hybrid", "multilingual"} /\ RetrieverFailed) =>
        /\ status = "returned"
        /\ result = NoResultsText

\* C14: when the answering LLM fails in answer_query_multilingual or
\* fact_check_statement, the invocation ends with the exception: nothing is
\* returned, no substitute answer is made up.
C14_GenerationFailureIsHard ==
    (prog \in {"multilingual", "factcheck"} /\ Called("answer_llm", FALSE)) =>
        /\ status = "raised"
        /\ result = << >>

\* C14 witness: answer_query_multilingual ended with the LLM's exception
\* after documents had been retrieved and formatted.
C14_Witness ==
    /\ prog = "multilingual"
    /\ Called("answer_llm", FALSE)
    /\ docs # << >>
    /\ status = "raised"

\* C15: every external call is bounded by a timeout, so a pipeline whose
\* retriever never answers still goes on to an end: no running invocation
\* is left without a next step.
C15_NoCallBlocksForever ==
    (prog # "idle" /\ status = "running") => ENABLED Next

\* C17: the text a successful invocation returns exposes the category (or
\* language), the formatted context that was used, and the answer text.
C17_ResultExposesAllThree ==
    (prog \in {"hybrid", "multilingual"} /\ status = "returned" /\ docs # << >>) =>
        /\ StrIn(IF prog = "hybrid" THEN query_type ELSE lang_code, result)
        /\ StrIn(context, result)
        /\ \E answer \in Answers : StrIn(answer, result)

\* The retriever get_retriever_for_type binds to a category, by name.
BoundRetriever(qt) ==
    IF qt = ACADEMIC THEN "arxiv"
    ELSE IF qt = CURRENT_EVENTS THEN "tavily"
    ELSE "wikipedia"

\* C19: hybrid_retrieve calls the classifier once, then only the retriever
\* bound to the category, once, with the unmodified query and without
\* retry; on zero records it returns the query type and the no-results line.
C19_OneRetrieverOnce ==
    prog = "hybrid" =>
        /\ Len(calls) <= 2
        /\ Len(calls) >= 1 =>
              calls[1].target = "classifier_llm" /\ calls[1].query = query
        /\ Len(calls) = 2 =>
              /\ calls[1].ok
              /\ calls[2].target = BoundRetriever(query_type)
              /\ calls[2].query = query
        /\ status = "returned" => Len(calls) = 2 /\ calls[2].ok
        /\ (status = "returned" /\ docs = << >>) =>
              result = QueryTypePrefix \o query_type \o NL \o NoResultsLine

\* C19 witness: a query classified current_events went to Tavily alone,
\* which returned no records, and the no-results text was returned.
C19_Witness ==
    /\ prog = "hybrid" /\ status = "returned"
    /\ query_type = CURRENT_EVENTS
    /\ docs = << >>
    /\ Len(calls) = 2 /\ calls[2].target = "tavily"
    /\ StrIn(NoResultsLine, result)

\* C16: whatever the order in which the two retriever calls of the
\* multi-source chain complete, the prompt gets the topic, the Tavily
\* records (only them, in Tavily's order) as news_context and the Wikipedia
\* records (only them, in Wikipedia's order) as wiki_context.
C16_ContextsPerSource ==
    (prog = "multisource" /\ pc \in {"generate", "done"} /\ DOMAIN llm_input # {}) =>
        /\ llm_input.topic = query
        /\ llm_input.news_context = format_docs3(resp["tavily"])
        /\ llm_input.wiki_context = format_docs3(resp["wikipedia"])

\* C16 witness: Wikipedia answered before Tavily, with different records,
\* and the prompt mapping was built.
C16_Witness ==
    /\ prog = "multisource" /\ pc = "generate"
    /\ Len(calls) = 2
    /\ calls[1].target = "wikipedia" /\ calls[2].target = "tavily"
    /\ Len(resp["tavily"]) = 2 /\ resp["tavily"][1] # resp["tavily"][2]
    /\ resp["wikipedia"] # << >>
    /\ resp["wikipedia"] # resp["tavily"]
    /\ llm_input.news_context # llm_input.wiki_context

\* The name the header of hybrid_retrieve uses for a backend.
SourceNameOf(kind) ==
    IF kind = "arxiv" THEN ArxivSourceName
    ELSE IF kind = "tavily" THEN TavilySourceName
    ELSE WikiSourceName

\* The text after "Selected source: " up to the end of that line.
SelectedSource ==
    LET start == Len(QueryTypePrefix \o query_type \o NL \o SelectedSourceLbl) + 1
        stop  == CHOOSE j \in start..Len(result) :
                     /\ result[j] = "\n"
                     /\ \A k \in start..(j - 1) : result[k] # "\n"
    IN SubSeq(result, start, stop - 1)

\* hybrid_retrieve returned a header with a "Selected source" line.
HeaderReturned == prog = "hybrid" /\ status = "returned" /\ docs # << >>

\* C21: for every value of query_type, declared or not, the source named in
\* the returned header is the backend that get_retriever_for_type selected
\* and that was queried.
C21_HeaderNamesQueriedBackend ==
    HeaderReturned =>
        /\ calls[Len(calls)].target = retriever.kind
        /\ SelectedSource = SourceNameOf(calls[Len(calls)].target)

\* C21 witness: for the undeclared label "sports" Wikipedia was queried and
\* the header names Wikipedia.
C21_Witness ==
    /\ HeaderReturned
    /\ query_type = <<"s","p","o","r","t","s">>
    /\ calls[Len(calls)].target = "wikipedia"
    /\ SelectedSource = WikiSourceName

\* C22: the language the Wikipedia retriever is configured with and the
\* target language handed to the answering LLM are the same language.
C22_RetrievalAndAnswerLanguageAgree ==
    (prog = "multilingual" /\ pc # "detect") =>
        /\ lang_name = language_name_from_code(retriever.lang)
        /\ DOMAIN llm_input # {} =>
              llm_input.target_language = language_name_from_code(retriever.lang)

\* ------------------------------------------ claims about format_docs
\* The blocks of a formatted text: its pieces between blank-line separators.
RECURSIVE SplitBlocks(_)
SplitBlocks(text) ==
    IF \E i \in 1..(Len(text) - 1) : text[i] = "\n" /\ text[i + 1] = "\n"
    THEN LET i == CHOOSE i \in 1..(Len(text) - 1) :
                      /\ text[i] = "\n" /\ text[i + 1] = "\n"
                      /\ \A j \in 1..(i - 1) : ~(text[j] = "\n" /\ text[j + 1] = "\n")
         IN <<SubSeq(text, 1, i - 1)>> \o SplitBlocks(SubSeq(text, i + 2, Len(text)))
    ELSE <<text>>

\* The blocks format_docs returned (none for the empty text).
OutBlocks == IF fmt_out = << >> THEN << >> ELSE SplitBlocks(fmt_out)

\* The content part of a block: what follows its "[label]" line.
ContentOf(block) ==
    LET i == CHOOSE i \in 1..(Len(block) - 1) :
                 /\ block[i] = "]" /\ block[i + 1] = "\n"
                 /\ \A j \in 1..(i - 1) : ~(block[j] = "]" /\ block[j + 1] = "\n")
    IN SubSeq(block, i + 2, Len(block))

\* A block is a "[label]" line followed by content.
WellFormed(block) ==
    /\ Len(block) >= 3
    /\ block[1] = "["
    /\ \E i \in 1..(Len(block) - 1) : block[i] = "]" /\ block[i + 1] = "\n"

\* The whitespace-stripped text of the i-th input record.
RecordText(i) == Strip(fmt_docs[i].page_content)

Marker == <<".", ".", ".">>

\* format_docs has returned and its output has one well-formed block per record.
Formatted ==
    /\ fmt_pc = "done"
    /\ Len(OutBlocks) = Len(fmt_docs)
    /\ \A i \in 1..Len(OutBlocks) : WellFormed(OutBlocks[i])

\* C11 (as amended): a record whose stripped text is longer than max_chars
\* is emitted as a prefix of the text followed by "..."; for max_chars >= 3
\* the prefix has max_chars - 3 characters, so the content, marker included,
\* is exactly max_chars long.  A text of at most max_chars is emitted in full.
C11_TruncatedWithinBudget ==
    fmt_pc = "done" =>
        /\ Formatted
        /\ \A i \in 1..Len(fmt_docs) :
              LET text    == RecordText(i)
                  emitted == ContentOf(OutBlocks[i])
              IN IF Len(text) > fmt_max
                 THEN /\ \E n \in 0..Len(text) : emitted = SubSeq(text, 1, n) \o Marker
                      /\ fmt_max >= 3 =>
                            /\ emitted = SubSeq(text, 1, fmt_max - 3) \o Marker
                            /\ Len(emitted) = fmt_max
                 ELSE emitted = text

\* C11 witness: with max_chars = 5 the six-character text "cdefgh" came out
\* as "cd...", and a shorter text in the same call came out in full.
C11_Witness ==
    /\ Formatted
    /\ fmt_max = 5
    /\ \E i \in 1..Len(fmt_docs) :
          /\ RecordText(i) = <<"c","d","e","f","g","h">>
          /\ ContentOf(OutBlocks[i]) = <<"c","d",".",".",".">>
    /\ \E i \in 1..Len(fmt_docs) :
          /\ RecordText(i) = <<"x","y","z">>
          /\ ContentOf(OutBlocks[i]) = <<"x","y","z">>

\* C11 (as claimed): a text longer than max_chars is emitted cut to exactly
\* max_chars characters, followed by "..."; a shorter one in full.  Stated
\* for the budgets that leave room for the marker (max_chars >= 3).
C11_TruncatedToBudgetPlusMarker ==
    (fmt_pc = "done" /\ fmt_max >= 3) =>
        /\ Formatted
        /\ \A i \in 1..Len(fmt_docs) :
              LET text    == RecordText(i)
                  emitted == ContentOf(OutBlocks[i])
              IN IF Len(text) > fmt_max
                 THEN emitted = SubSeq(text, 1, fmt_max) \o Marker
                 ELSE emitted = text
\* The label format_docs gives the i-th record.
RecordLabel(i) ==
    IF fmt_fn = "exercise4" THEN Title4(fmt_docs[i], i) ELSE Title5(fmt_docs[i], i)

\* C18: the output has exactly one block per input record, in input order,
\* the blocks separated by one blank line; repeated records are repeated.
C18_OneBlockPerRecord ==
    fmt_pc = "done" =>
        /\ Len(OutBlocks) = Len(fmt_docs)
        /\ \A i \in 1..Len(OutBlocks) :
              /\ WellFormed(OutBlocks[i])
              /\ OutBlocks[i] =
                    <<"[">> \o RecordLabel(i) \o <<"]", "\n">> \o ContentOf(OutBlocks[i])
              /\ \/ ContentOf(OutBlocks[i]) = RecordText(i)
                 \/ /\ Len(RecordText(i)) > fmt_max
                    /\ \E n \in 0..Len(RecordText(i)) :
                          ContentOf(OutBlocks[i]) = SubSeq(RecordText(i), 1, n) \o Marker

\* C18 witness: the same record given twice came out as two equal-content
\* blocks.
C18_Witness ==
    /\ Formatted
    /\ Len(fmt_docs) = 2
    /\ fmt_docs[1] = fmt_docs[2]
    /\ Len(OutBlocks) = 2
    /\ ContentOf(OutBlocks[1]) = ContentOf(OutBlocks[2])

\* C20: for every budget max_chars >= 0 the content part of each block,
\* marker included, is at most max_chars characters long.
C20_ContentWithinBudget ==
    fmt_pc = "done" =>
        /\ Formatted
        /\ \A i \in 1..Len(fmt_docs) : Len(ContentOf(OutBlocks[i])) <= fmt_max
====
